---- MODULE Spec2Model ----
(***************************************************************************)
(* Model of qosst_bob.dsp.zc.synchronisation_zc: the two-stage search for  *)
(* a Zadoff-Chu pilot in captured data (rolling-average coarse estimate,   *)
(* then a windowed "same"-mode cross-correlation).                         *)
(*                                                                         *)
(* Numbers.  A complex sample is a pair <<re, im>> of integers.  The unit  *)
(* phasors of the pilot are held in fixed point (1000 = 1.0); every        *)
(* decision the function takes (argmax of the envelope, argmax of the      *)
(* correlation) is invariant under a common positive scale, so no          *)
(* rescaling is needed.  The resample factor is a rational <<num, den>>.   *)
(* Sums are exact: the rounding noise of float64 accumulation is not       *)
(* modelled.                                                               *)
(***************************************************************************)
EXTENDS Integers, Sequences, FiniteSets, TLC

VARIABLES data, zc_root, zc_length, resample, use_abs, ratio_approx,
          pc, raised,
          uniform_filter_length, envelope, approx_zc, zadoff_chu, n,
          xcorr_start_point, xcorr_end_point, data_zc, lags, xcorr,
          beginning_zc, end_zc,
          offset, calls, previous

vars == <<data, zc_root, zc_length, resample, use_abs, ratio_approx,
          pc, raised,
          uniform_filter_length, envelope, approx_zc, zadoff_chu, n,
          xcorr_start_point, xcorr_end_point, data_zc, lags, xcorr,
          beginning_zc, end_zc,
          offset, calls, previous>>

(***************************************************************************)
(* Bounds of the model.                                                    *)
(***************************************************************************)
MaxLen == 3          \* longest arbitrary signal
MaxZcLength == 4     \* longest Zadoff-Chu sequence
MaxPad == 1          \* a synthetic signal has 4n .. 4n + MaxPad samples
MaxCalls == 2        \* invocations in a row on the same arguments

(***************************************************************************)
(* Arithmetic helpers.                                                     *)
(***************************************************************************)
AbsInt(x) == IF x < 0 THEN -x ELSE x

Max2(a, b) == IF a >= b THEN a ELSE b

Min2(a, b) == IF a <= b THEN a ELSE b

\* int(a / b) of Python for b > 0: truncation toward zero.
Trunc(a, b) == IF a >= 0 THEN a \div b ELSE -((-a) \div b)

\* round(a / b) for a >= 0, b > 0: to nearest, a half to the even neighbour.
RoundHalfEven(a, b) ==
    LET q == a \div b
        r == a % b
    IN  IF 2 * r < b THEN q
        ELSE IF 2 * r > b THEN q + 1
        ELSE IF q % 2 = 0 THEN q ELSE q + 1

RECURSIVE ISqrt(_)
ISqrt(x) ==
    IF x < 2 THEN x
    ELSE LET s == 2 * ISqrt(x \div 4)
         IN  IF (s + 1) * (s + 1) <= x THEN s + 1 ELSE s

RECURSIVE Gcd(_, _)
Gcd(a, b) == IF b = 0 THEN a ELSE Gcd(b, a % b)

(***************************************************************************)
(* Complex samples.                                                        *)
(***************************************************************************)
CZero == <<0, 0>>

CAdd(a, b) == <<a[1] + b[1], a[2] + b[2]>>

CMulConj(a, b) == <<a[1] * b[1] + a[2] * b[2], a[2] * b[1] - a[1] * b[2]>>

\* np.abs of one sample, to the nearest integer of the fixed-point grid.
CAbs(z) ==
    IF z[2] = 0 THEN AbsInt(z[1])
    ELSE IF z[1] = 0 THEN AbsInt(z[2])
    ELSE LET x == z[1] * z[1] + z[2] * z[2]
             f == ISqrt(x)
         IN  IF x - f * f > f THEN f + 1 ELSE f

AbsSeq(s) == [i \in 1..Len(s) |-> <<CAbs(s[i]), 0>>]

\* The order numpy gives complex numbers: real part first, then imaginary.
CLess(a, b) == a[1] < b[1] \/ (a[1] = b[1] /\ a[2] < b[2])

(***************************************************************************)
(* numpy and scipy primitives, on 0-based positions held in 1-based        *)
(* sequences (position i is element i + 1).                                *)
(***************************************************************************)
\* np.argmax of a sequence of integers: the first position of the maximum.
ArgMaxInt(s) ==
    CHOOSE i \in 0..(Len(s) - 1) :
        /\ \A j \in 0..(Len(s) - 1) : s[j + 1] <= s[i + 1]
        /\ \A j \in 0..(i - 1) : s[j + 1] < s[i + 1]

\* A variant that keeps the last position of the maximum.
ArgMaxLast(s) ==
    CHOOSE i \in 0..(Len(s) - 1) :
        /\ \A j \in 0..(Len(s) - 1) : ~CLess(s[i + 1], s[j + 1])
        /\ \A j \in (i + 1)..(Len(s) - 1) : CLess(s[j + 1], s[i + 1])

\* np.argmax of a sequence of complex numbers, in numpy's order (real part
\* first, then imaginary): the first position of the maximum.
ArgMax(s) ==
    CHOOSE i \in 0..(Len(s) - 1) :
        /\ \A j \in 0..(Len(s) - 1) : ~CLess(s[i + 1], s[j + 1])
        /\ \A j \in 0..(i - 1) : CLess(s[j + 1], s[i + 1])

\* mode="reflect" of scipy.ndimage: (d c b a | a b c d | d c b a).
Reflect(j, len) ==
    LET m == j % (2 * len)
    IN  IF m < len THEN m ELSE 2 * len - 1 - m

RECURSIVE WindowSum(_, _, _)
\* |d[first]| + ... + |d[first + k - 1]| on the reflected line.
WindowSum(d, first, k) ==
    IF k <= 0 THEN 0
    ELSE CAbs(d[Reflect(first + k - 1, Len(d)) + 1]) + WindowSum(d, first, k - 1)

\* uniform_filter1d(np.abs(data), size), origin 0: position i averages the
\* positions i - size \div 2 .. i - size \div 2 + size - 1 of the reflected
\* line.  The value kept is size times the mean (the window's sum).
UniformFilter1d(d, size) ==
    [i \in 1..Len(d) |-> WindowSum(d, (i - 1) - (size \div 2), size)]

\* data[lo:hi] of Python: a negative bound counts from the end, both are
\* clipped to the sequence.
SliceBound(b, len) == IF b < 0 THEN Max2(b + len, 0) ELSE Min2(b, len)

Slice(d, lo, hi) ==
    LET a == SliceBound(lo, Len(d))
        b == SliceBound(hi, Len(d))
    IN  IF b <= a THEN <<>> ELSE [i \in 1..(b - a) |-> d[a + i]]

\* scipy.signal.correlation_lags(in1_len, in2_len, mode="same"): the slice
\* lags[mid - lag_bound : mid + lag_bound (+ 1 when in1_len is odd)] of
\* the full lags arange(-in2_len + 1, in1_len).
CorrelationLags(in1_len, in2_len) ==
    LET size == in1_len + in2_len - 1
        mid == size \div 2
        lag_bound == in1_len \div 2
        first == mid - lag_bound
    IN  [j \in 1..in1_len |-> (first + (j - 1)) - (in2_len - 1)]

RECURSIVE CorrSum(_, _, _, _)
\* The terms t = 0 .. last of the sum over t of a[t] * conj(b[t - k]).
CorrSum(a, b, k, last) ==
    IF last < 0 THEN CZero
    ELSE LET rest == CorrSum(a, b, k, last - 1)
         IN  IF last - k >= 0 /\ last - k < Len(b)
             THEN CAdd(CMulConj(a[last + 1], b[last - k + 1]), rest)
             ELSE rest

\* One value of the cross-correlation: sum over t of a[t] * conj(b[t - k]).
CorrAt(a, b, k) == CorrSum(a, b, k, Len(a) - 1)

\* scipy.signal.correlate(a, b, mode="same"): Len(a) values of the full
\* correlation, starting (Len(b) - 1) \div 2 values into it; the full
\* correlation starts at lag -(Len(b) - 1).
Correlate(a, b) ==
    [j \in 1..Len(a) |->
        CorrAt(a, b, (j - 1) + ((Len(b) - 1) \div 2) - (Len(b) - 1))]

(***************************************************************************)
(* The collaborators: the pilot generator and the resampler.               *)
(***************************************************************************)
\* 1000 * cos of an angle in degrees, for the angles the pilots use.
CosDeg(d) ==
    LET a == d % 360
        b == IF a > 180 THEN 360 - a ELSE a
        c == IF b > 90 THEN 180 - b ELSE b
        v == CASE c = 0 -> 1000
               [] c = 18 -> 951
               [] c = 30 -> 866
               [] c = 36 -> 809
               [] c = 45 -> 707
               [] c = 54 -> 588
               [] c = 60 -> 500
               [] c = 72 -> 309
               [] c = 90 -> 0
    IN  IF b > 90 THEN -v ELSE v

SinDeg(d) == CosDeg(d + 270)

\* zcsequence refuses a root or length that is not positive, a root that
\* is not below the length, and a root that shares a factor with it.
ZcValid(root, length) ==
    root > 0 /\ length > 0 /\ root < length /\ Gcd(length, root) = 1

\* zcsequence(root, length)[k] = exp(-j * pi * root * k * (k + length % 2) / length)
ZcSequence(root, length) ==
    [i \in 1..length |->
        LET k == i - 1
            m == (root * k * (k + (length % 2))) % (2 * length)
            deg == (180 * m) \div length
        IN  <<CosDeg(deg), -SinDeg(deg)>>]

\* Length of the upsampled pilot.
UpsampledLength(length, rs) == RoundHalfEven(length * rs[1], rs[2])

\* upsample(zc, factor, 0): zero-order hold, sample i repeats zc[floor(i / factor)].
Upsample(zc, rs) ==
    [i \in 1..UpsampledLength(Len(zc), rs) |->
        zc[(((i - 1) * rs[2]) \div rs[1]) + 1]]

(***************************************************************************)
(* The expressions of synchronisation_zc.                                  *)
(***************************************************************************)
\* Variants of the window length: rounded to the nearest integer, and
\* derived from ratio_approx as the docstring of line 62 describes.
FilterLengthRounded(length, rs) ==
    IF length * rs[1] >= 0 THEN RoundHalfEven(length * rs[1], rs[2])
    ELSE -RoundHalfEven(-(length * rs[1]), rs[2])

FilterLengthFromRatio(length, rs) == Len(data) \div ratio_approx

\* uniform_filter_length = int(zc_length * resample)
FilterLength(length, rs) == Trunc(length * rs[1], rs[2])

\* A variant that halves the window with an integer division first.
ApproxZcHalfFirst(env, size) == ArgMaxInt(env) - (size \div 2)

\* approx_zc = int(np.argmax(envelope) - uniform_filter_length / 2)
ApproxZc(env, size) == Trunc(2 * ArgMaxInt(env) - size, 2)

\* A variant that does not clip the window's start.
XcorrStartPointUnclipped(approx, len) == approx - 2 * len

\* xcorr_start_point = max(approx_zc - 2 * n, 0)
XcorrStartPoint(approx, len) == Max2(approx - 2 * len, 0)

\* xcorr_end_point = min(approx_zc + 2 * n, len(data))
XcorrEndPoint(approx, len, datalen) == Min2(approx + 2 * len, datalen)

\* beginning_zc = lags[np.argmax(xcorr)] + xcorr_start_point
BeginningZc(lg, xc, start) == lg[ArgMax(xc) + 1] + start

\* A variant that returns the position of the pilot's last sample.
EndZcInclusive(len, beginning) == len + beginning - 1

\* end_zc = len(zadoff_chu) + beginning_zc
EndZc(len, beginning) == len + beginning

(***************************************************************************)
(* Inputs.                                                                 *)
(***************************************************************************)
DefaultRatioApprox == 50

Samples == {<<0, 0>>, <<1000, 0>>, <<0, -2000>>}

Roots == 1..2

ValidResamples == {<<1, 1>>, <<1, 2>>, <<2, 1>>, <<17, 10>>}

Resamples == ValidResamples \cup {<<0, 1>>, <<-1, 1>>}

RatioApproxValues == {10, DefaultRatioApprox}

SeqsUpTo(S, k) == UNION {[1..m -> S] : m \in 0..k}

\* The upsampled pilot placed at position o of an all-zero signal of len samples.
Embed(pilot, o, len) ==
    [i \in 1..len |->
        IF i - 1 >= o /\ i - 1 < o + Len(pilot) THEN pilot[i - 1 - o + 1]
        ELSE CZero]

Fresh ==
    /\ pc = "envelope"
    /\ raised = "none"
    /\ uniform_filter_length = 0
    /\ envelope = <<>>
    /\ approx_zc = 0
    /\ zadoff_chu = <<>>
    /\ n = 0
    /\ xcorr_start_point = 0
    /\ xcorr_end_point = 0
    /\ data_zc = <<>>
    /\ lags = <<>>
    /\ xcorr = <<>>
    /\ beginning_zc = 0
    /\ end_zc = 0

\* Any signal, any parameters.
InitAny ==
    /\ data \in SeqsUpTo(Samples, MaxLen)
    /\ zc_root \in Roots
    /\ zc_length \in (-1)..MaxZcLength
    /\ resample \in Resamples
    /\ offset = -1

\* A synthetic signal: one copy of the upsampled pilot in zeros, at least
\* four pilots long.
InitSynthetic ==
    /\ zc_root \in Roots
    /\ zc_length \in 1..MaxZcLength
    /\ resample \in ValidResamples
    /\ ZcValid(zc_root, zc_length)
    /\ LET pilot == Upsample(ZcSequence(zc_root, zc_length), resample)
       IN  /\ Len(pilot) >= 1
           /\ \E pad \in 0..MaxPad :
                 \E o \in 0..(3 * Len(pilot) + pad) :
                    /\ data = Embed(pilot, o, 4 * Len(pilot) + pad)
                    /\ offset = o

Init ==
    /\ InitAny \/ InitSynthetic
    /\ use_abs \in BOOLEAN
    /\ ratio_approx = DefaultRatioApprox
    /\ calls = 1
    /\ previous = <<"none">>
    /\ Fresh

(***************************************************************************)
(* The steps of one invocation.                                            *)
(***************************************************************************)
inputs == <<data, zc_root, zc_length, resample, use_abs, ratio_approx,
            offset, calls, previous>>

Raise(error) ==
    /\ pc' = "raised"
    /\ raised' = error

\* Lines 76-77: the rolling average of the magnitudes.  uniform_filter1d
\* refuses a size below 1.
ComputeEnvelope ==
    /\ pc = "envelope"
    /\ uniform_filter_length' = FilterLength(zc_length, resample)
    /\ IF uniform_filter_length' < 1
       THEN /\ Raise("RuntimeError")
            /\ UNCHANGED envelope
       ELSE /\ envelope' = UniformFilter1d(data, uniform_filter_length')
            /\ pc' = "approx"
            /\ UNCHANGED raised
    /\ UNCHANGED <<inputs, approx_zc, zadoff_chu, n, xcorr_start_point,
                   xcorr_end_point, data_zc, lags, xcorr, beginning_zc, end_zc>>

\* Line 78: the coarse estimate.  np.argmax refuses an empty sequence.
ComputeApprox ==
    /\ pc = "approx"
    /\ IF Len(envelope) = 0
       THEN /\ Raise("ValueError")
            /\ UNCHANGED approx_zc
       ELSE /\ approx_zc' = ApproxZc(envelope, uniform_filter_length)
            /\ pc' = "pilot"
            /\ UNCHANGED raised
    /\ UNCHANGED <<inputs, uniform_filter_length, envelope, zadoff_chu, n,
                   xcorr_start_point, xcorr_end_point, data_zc, lags, xcorr,
                   beginning_zc, end_zc>>

\* Lines 80-84: the pilot and its upsampled copy.
GeneratePilot ==
    /\ pc = "pilot"
    /\ IF ~ZcValid(zc_root, zc_length)
       THEN /\ Raise("ValueError")
            /\ UNCHANGED <<zadoff_chu, n>>
       ELSE /\ zadoff_chu' = Upsample(ZcSequence(zc_root, zc_length), resample)
            /\ n' = Len(zadoff_chu')
            /\ pc' = "window"
            /\ UNCHANGED raised
    /\ UNCHANGED <<inputs, uniform_filter_length, envelope, approx_zc,
                   xcorr_start_point, xcorr_end_point, data_zc, lags, xcorr,
                   beginning_zc, end_zc>>

\* Lines 91-93: the search window.
SelectWindow ==
    /\ pc = "window"
    /\ xcorr_start_point' = XcorrStartPoint(approx_zc, n)
    /\ xcorr_end_point' = XcorrEndPoint(approx_zc, n, Len(data))
    /\ data_zc' = Slice(data, xcorr_start_point', xcorr_end_point')
    /\ pc' = "lags"
    /\ UNCHANGED <<inputs, raised, uniform_filter_length, envelope, approx_zc,
                   zadoff_chu, n, lags, xcorr, beginning_zc, end_zc>>

\* Line 94: the lags of the "same"-mode correlation.
ComputeLags ==
    /\ pc = "lags"
    /\ lags' = CorrelationLags(Len(data_zc), Len(zadoff_chu))
    /\ pc' = "correlate"
    /\ UNCHANGED <<inputs, raised, uniform_filter_length, envelope, approx_zc,
                   zadoff_chu, n, xcorr_start_point, xcorr_end_point, data_zc,
                   xcorr, beginning_zc, end_zc>>

\* Lines 95-96: the correlation of the magnitudes.
CorrelateAbs ==
    /\ pc = "correlate"
    /\ use_abs
    /\ xcorr' = Correlate(AbsSeq(data_zc), AbsSeq(zadoff_chu))
    /\ pc' = "result"
    /\ UNCHANGED <<inputs, raised, uniform_filter_length, envelope, approx_zc,
                   zadoff_chu, n, xcorr_start_point, xcorr_end_point, data_zc,
                   lags, beginning_zc, end_zc>>

\* Lines 97-98: the correlation of the raw samples.
CorrelateRaw ==
    /\ pc = "correlate"
    /\ ~use_abs
    /\ xcorr' = Correlate(data_zc, zadoff_chu)
    /\ pc' = "result"
    /\ UNCHANGED <<inputs, raised, uniform_filter_length, envelope, approx_zc,
                   zadoff_chu, n, xcorr_start_point, xcorr_end_point, data_zc,
                   lags, beginning_zc, end_zc>>

\* Lines 100-104: the lag of the largest correlation, as signal positions.
Return ==
    /\ pc = "result"
    /\ IF Len(xcorr) = 0
       THEN /\ Raise("ValueError")
            /\ UNCHANGED <<beginning_zc, end_zc>>
       ELSE /\ beginning_zc' = BeginningZc(lags, xcorr, xcorr_start_point)
            /\ end_zc' = EndZc(Len(zadoff_chu), beginning_zc')
            /\ pc' = "done"
            /\ UNCHANGED raised
    /\ UNCHANGED <<inputs, uniform_filter_length, envelope, approx_zc,
                   zadoff_chu, n, xcorr_start_point, xcorr_end_point, data_zc,
                   lags, xcorr>>

Next ==
    \/ ComputeEnvelope
    \/ ComputeApprox
    \/ GeneratePilot
    \/ SelectWindow
    \/ ComputeLags
    \/ CorrelateAbs
    \/ CorrelateRaw
    \/ Return

Spec == Init /\ [][Next]_vars

\* What an invocation hands back to its caller.
Outcome ==
    IF pc = "done" THEN <<"returned", beginning_zc, end_zc>>
    ELSE <<"raised", raised>>

\* The caller invokes the function again on the same data and pilot
\* parameters, with any ratio_approx.
Reinvoke ==
    /\ pc \in {"done", "raised"}
    /\ calls < MaxCalls
    /\ calls' = calls + 1
    /\ previous' = Outcome
    /\ ratio_approx' \in RatioApproxValues
    /\ pc' = "envelope"
    /\ raised' = "none"
    /\ uniform_filter_length' = 0
    /\ envelope' = <<>>
    /\ approx_zc' = 0
    /\ zadoff_chu' = <<>>
    /\ n' = 0
    /\ xcorr_start_point' = 0
    /\ xcorr_end_point' = 0
    /\ data_zc' = <<>>
    /\ lags' = <<>>
    /\ xcorr' = <<>>
    /\ beginning_zc' = 0
    /\ end_zc' = 0
    /\ UNCHANGED <<data, zc_root, zc_length, resample, use_abs, offset>>

NextRepeat == Next \/ Reinvoke

SpecRepeat == Init /\ [][NextRepeat]_vars

(***************************************************************************)
(* Properties.                                                             *)
(***************************************************************************)
\* The arguments meet the stated preconditions.
ValidInput == zc_length > 0 /\ resample[1] > 0 /\ Len(data) > 0

\* The window has been selected in this invocation.
WindowSelected == pc \in {"lags", "correlate", "result", "done"}

\* Position a holds the first maximum of the sequence of integers s.
IsFirstMaxInt(s, a) ==
    /\ a \in 0..(Len(s) - 1)
    /\ \A j \in 0..(Len(s) - 1) : s[j + 1] <= s[a + 1]
    /\ \A j \in 0..(a - 1) : s[j + 1] < s[a + 1]

\* Position a holds a maximum of the correlation xc.
IsMaxOf(xc, a) ==
    /\ a \in 0..(Len(xc) - 1)
    /\ \A j \in 0..(Len(xc) - 1) : ~CLess(xc[a + 1], xc[j + 1])

\* C1: whenever the function returns on valid inputs, end_zc - beginning_zc
\* is the length n of the upsampled pilot, and beginning_zc is the lag at
\* the first maximum of the correlation plus the start of the search window.
C1_PairSpansPilot ==
    (pc = "done" /\ ValidInput) =>
        /\ n = Len(zadoff_chu)
        /\ end_zc - beginning_zc = n
        /\ \E a \in 0..(Len(xcorr) - 1) :
              /\ IsMaxOf(xcorr, a)
              /\ \A j \in 0..(a - 1) : CLess(xcorr[j + 1], xcorr[a + 1])
              /\ beginning_zc = lags[a + 1] + xcorr_start_point

C1_Witness ==
    /\ pc = "done"
    /\ ValidInput
    /\ xcorr_start_point > 0
    /\ beginning_zc # xcorr_start_point

\* C2: with zc_length <= 0, resample <= 0, an empty signal or a window
\* length that rounds to 0, the function fails with InvalidParameterError
\* before any step of the computation has run.
InvalidInput ==
    \/ zc_length <= 0
    \/ resample[1] <= 0
    \/ Len(data) = 0
    \/ RoundHalfEven(zc_length * resample[1], resample[2]) = 0

C2_FailsFastOnInvalid ==
    InvalidInput =>
        /\ pc \in {"envelope", "raised"}
        /\ pc = "raised" => raised = "InvalidParameterError"
        /\ envelope = <<>>
        /\ zadoff_chu = <<>>
        /\ xcorr = <<>>

\* C3: on a signal of at least 4n samples that is zero except for one copy
\* of the upsampled pilot at position o, the function returns (o, o + n),
\* with use_abs true or false, for every resample factor of 1, 0.5, 2, 1.7.
C3_ExactRecovery ==
    offset >= 0 =>
        /\ pc # "raised"
        /\ pc = "done" => (beginning_zc = offset /\ end_zc = offset + n)

\* C4: when the search window is clipped at an end of the signal (the coarse
\* estimate less 2n is negative, or plus 2n is beyond the signal), the
\* window stays inside the signal, nothing is raised, and the pilot's true
\* (start, start + n) is still returned.
C4_ClippedRecovery ==
    /\ offset >= 0 => pc # "raised"
    /\ (/\ offset >= 0
        /\ pc = "done"
        /\ (approx_zc - 2 * n < 0 \/ approx_zc + 2 * n > Len(data)))
       => /\ 0 <= xcorr_start_point
          /\ xcorr_end_point <= Len(data)
          /\ beginning_zc = offset
          /\ end_zc = offset + n

\* C5: the lag selected is the lag at the first maximal position of the
\* correlation, hence the smallest lag among those of maximal correlation;
\* the lags are strictly ascending and as many as the correlation values.
C5_FirstMaximalLag ==
    pc = "done" =>
        /\ Len(lags) = Len(xcorr)
        /\ \A i \in 1..(Len(lags) - 1) : lags[i] < lags[i + 1]
        /\ \E a \in 0..(Len(xcorr) - 1) :
              /\ IsMaxOf(xcorr, a)
              /\ beginning_zc - xcorr_start_point = lags[a + 1]
              /\ \A j \in 0..(Len(xcorr) - 1) :
                    IsMaxOf(xcorr, j) => lags[a + 1] <= lags[j + 1]

C5_Witness ==
    /\ pc = "done"
    /\ use_abs
    /\ \E i, j \in 0..(Len(xcorr) - 1) :
          i # j /\ IsMaxOf(xcorr, i) /\ IsMaxOf(xcorr, j)
    /\ \E i \in 1..Len(data) : data[i] # CZero

C8_WindowInsideSignal ==
    WindowSelected =>
        /\ xcorr_start_point = (IF approx_zc - 2 * n > 0 THEN approx_zc - 2 * n ELSE 0)
        /\ xcorr_end_point =
              (IF approx_zc + 2 * n < Len(data) THEN approx_zc + 2 * n ELSE Len(data))
        /\ 0 <= xcorr_start_point
        /\ xcorr_start_point < xcorr_end_point
        /\ xcorr_end_point <= Len(data)
        /\ Len(data_zc) = xcorr_end_point - xcorr_start_point
        /\ \A i \in 1..Len(data_zc) : data_zc[i] = data[xcorr_start_point + i]
        /\ Len(data_zc) >= 1
        /\ Len(data_zc) <= 4 * n

C8_Witness ==
    /\ WindowSelected
    /\ approx_zc - 2 * n > 0
    /\ approx_zc + 2 * n > Len(data)
    /\ Len(data_zc) < 4 * n

\* C9 as stated: the coarse estimate is the first maximal position of the
\* envelope less the integer half of the window length.
C9_HalfWindowFirst ==
    (pc \in {"pilot", "window"} \/ WindowSelected) =>
        \E a \in 0..(Len(envelope) - 1) :
            /\ IsFirstMaxInt(envelope, a)
            /\ approx_zc = a - (uniform_filter_length \div 2)

\* C9, amended: the coarse estimate is the first maximal position of the
\* envelope less half the window length, the difference truncated toward
\* zero: with d = 2 * argmax - w, it is d / 2 for even d, (d - 1) / 2 for
\* odd d > 0 and (d + 1) / 2 for odd d < 0.
C9_TruncatedDifference ==
    (pc \in {"pilot", "window"} \/ WindowSelected) =>
        \E a \in 0..(Len(envelope) - 1) :
            /\ IsFirstMaxInt(envelope, a)
            /\ LET d == 2 * a - uniform_filter_length
               IN  2 * approx_zc =
                      (IF d % 2 = 0 THEN d ELSE IF d > 0 THEN d - 1 ELSE d + 1)

C9_Witness ==
    /\ pc = "done"
    /\ uniform_filter_length % 2 = 1
    /\ approx_zc > 0
    /\ \E a \in 0..(Len(envelope) - 1) :
          /\ IsFirstMaxInt(envelope, a)
          /\ approx_zc = a - (uniform_filter_length \div 2) - 1

\* C10: when the signal is at least as long as the upsampled pilot, the
\* pair returned lies inside the signal: 0 <= beginning_zc, end_zc <= N.
C10_PairInsideSignal ==
    (pc = "done" /\ ValidInput /\ Len(data) >= n) =>
        /\ 0 <= beginning_zc
        /\ end_zc <= Len(data)

====
